---- MODULE Spec2Model ----
(***************************************************************************)
(* Conversation routing and specialty triage of the chat backend           *)
(* (src/server.js).  The file holds two variants of the service: the       *)
(* doctor-flow variant (lines 1-368: /conversation, /chat, /triage, ...)   *)
(* and the triage variant (lines 370-598: /temp-conversation, /temp-chat,  *)
(* /triage).  Both are modelled over one document store.                   *)
(*                                                                         *)
(* Text is a sequence of characters.  A character is a one-element string; *)
(* Vietnamese letters are written in VIQR so that the module stays ASCII:  *)
(*   "o'" = o-acute   "o^" = o-circumflex   "o^'" = o-circumflex-acute     *)
(*   "dd" = d-stroke  "DD" = capital d-stroke   "u'" = u-acute             *)
(*   "u+`" = u-horn-grave   "u." = u-dot-below   "u~" = u-tilde            *)
(*   "o." = o-dot-below     "e^'" = e-circumflex-acute   "a'" = a-acute    *)
(* Each of these is ONE character of the text, as in the JavaScript string.*)
(***************************************************************************)
EXTENDS Integers, Sequences, FiniteSets, TLC

(* ------------------------------ bounds ------------------------------ *)
\* number of Conversation documents ever created (ObjectIds are fresh)
MaxConvs == 1
\* number of TempConversation documents ever created
MaxTemps == 1
\* number of successful chat turns over all stored transcripts
MaxTurns == 3
\* number of messages/2 stored when a /temp-chat turn may still start
MaxTempTurns == 2
\* number of Triage records
MaxTriages == 1
\* conversations created where conversations are listed and deleted
MaxStoreConvs == 2
\* longest text of a classifier response
MaxAnswerLen == 3
\* /chat requests that may be in progress at once
MaxInFlight == 2

(* ------------------------------ strings ----------------------------- *)
\* String.prototype.toLowerCase, on the characters the model uses
LowerChar(c) ==
    CASE c = "C" -> "c"
      [] c = "O" -> "o"
      [] c = "K" -> "k"
      [] c = "Y" -> "y"
      [] c = "E" -> "e"
      [] c = "S" -> "s"
      [] c = "T" -> "t"
      [] c = "I" -> "i"
      [] c = "M" -> "m"
      [] c = "DD" -> "dd"
      [] OTHER -> c

toLowerCase(s) == [i \in 1..Len(s) |-> LowerChar(s[i])]

\* String.prototype.includes: w occurs in s as a contiguous substring
includes(s, w) ==
    \E i \in 0..(Len(s) - Len(w)) : SubSeq(s, i + 1, i + Len(w)) = w

IsSpace(c) == c \in {" ", "\n"}

RECURSIVE trimStart(_)
trimStart(s) ==
    IF s # <<>> /\ IsSpace(Head(s)) THEN trimStart(Tail(s)) ELSE s

RECURSIVE trimEnd(_)
trimEnd(s) ==
    IF s # <<>> /\ IsSpace(s[Len(s)]) THEN trimEnd(SubSeq(s, 1, Len(s) - 1)) ELSE s

\* String.prototype.trim
trim(s) == trimEnd(trimStart(s))

(* ----------------------- keywords of the routes ---------------------- *)
kw_co      == <<"c", "o'">>
kw_ok      == <<"o", "k">>
kw_dung    == <<"dd", "u'", "n", "g">>
kw_yes     == <<"y", "e", "s">>
kw_khong   == <<"k", "h", "o^", "n", "g">>
kw_no      == <<"n", "o">>
kw_tuchoi  == <<"t", "u+`", " ", "c", "h", "o^'", "i">>
kw_tim     == <<"t", "i", "m">>
kw_huyetap == <<"h", "u", "y", "e^'", "t", " ", "a'", "p">>
kw_da      == <<"d", "a">>
kw_mun     == <<"m", "u.", "n">>
kw_tai     == <<"t", "a", "i">>
kw_mui     == <<"m", "u~", "i">>
kw_hong    == <<"h", "o.", "n", "g">>

\* ["co", "ok", "dung", "yes"] of the pending-confirmation branch
AffirmativeTokens == {kw_co, kw_ok, kw_dung, kw_yes}
\* ["khong", "no", "tu choi"] of the pending-confirmation branch
NegativeTokens == {kw_khong, kw_no, kw_tuchoi}

IsAffirmative(lower) == \E w \in AffirmativeTokens : includes(lower, w)
IsNegative(lower) == \E w \in NegativeTokens : includes(lower, w)

Cardiology  == "Tim mach"
Dermatology == "Da lieu"
ENT         == "Tai mui hong"
General     == "Noi tong quat"

\* rule chain of the /chat route: tim | huyet ap, then da | mun, then tai | mui | hong
ChatSpecialty(lower) ==
    IF includes(lower, kw_tim) \/ includes(lower, kw_huyetap) THEN Cardiology
    ELSE IF includes(lower, kw_da) \/ includes(lower, kw_mun) THEN Dermatology
    ELSE IF includes(lower, kw_tai) \/ includes(lower, kw_mui) \/ includes(lower, kw_hong)
         THEN ENT
    ELSE General

\* rule chain of /temp-chat: da | mun, then tim | huyet ap, then tai | mui | hong
TempChatSpecialty(lower) ==
    IF includes(lower, kw_da) \/ includes(lower, kw_mun) THEN Dermatology
    ELSE IF includes(lower, kw_tim) \/ includes(lower, kw_huyetap) THEN Cardiology
    ELSE IF includes(lower, kw_tai) \/ includes(lower, kw_mui) \/ includes(lower, kw_hong)
         THEN ENT
    ELSE General

\* rule chain of triageRoute (both variants): da | mun, then tim | huyet ap, then ENT
TriageSpecialty(lowerSymptoms) ==
    IF includes(lowerSymptoms, kw_da) \/ includes(lowerSymptoms, kw_mun) THEN Dermatology
    ELSE IF includes(lowerSymptoms, kw_tim) \/ includes(lowerSymptoms, kw_huyetap)
         THEN Cardiology
    ELSE IF includes(lowerSymptoms, kw_tai) \/ includes(lowerSymptoms, kw_mui)
            \/ includes(lowerSymptoms, kw_hong)
         THEN ENT
    ELSE General

(* ------------------------------- data -------------------------------- *)
\* the absent value of a field (null / undefined)
Null == [isNull |-> TRUE]

\* userId of a request body; NoUser is a missing userId
Users == {"u1", "u2"}
NoUser == ""
UserInputs == Users \cup {NoUser}

sp == <<" ">>
\* question / symptoms of a request body; <<>> is a missing or empty text
Questions ==
    { <<"C", "o'">>,                          \* affirmative after toLowerCase
      kw_khong,                               \* negative
      kw_khong \o sp \o kw_co,                \* negative and affirmative
      <<"dd", "a", "u">>,                     \* no token, no keyword
      kw_tim \o sp \o kw_da,                  \* Cardiology and Dermatology keywords
      kw_mun }                                \* Dermatology keyword
QuestionInputs == Questions \cup {<<>>}

\* Doctor documents: { name, specialty, hospital, experience }
Doc(n, s) == [name |-> n, specialty |-> s, hospital |-> "H", experience |-> 5]
\* contents of the doctors collection, in natural order; no route writes it
Directories ==
    { <<>>,
      << Doc("B", Cardiology), Doc("A", Cardiology), Doc("C", Dermatology) >> }

\* a placeholder that names the general specialty whatever was suggested
PlaceholderDoctorGeneral(suggestedSpecialty) ==
    [name |-> "Chua co bac si trong he thong", specialty |-> General,
     hospital |-> "Vui long den benh vien gan nhat", experience |-> 0]

\* the object the triage routes return when the directory has no doctor
PlaceholderDoctor(suggestedSpecialty) ==
    [name |-> "Chua co bac si trong he thong", specialty |-> suggestedSpecialty,
     hospital |-> "Vui long den benh vien gan nhat", experience |-> 0]

\* outcomes of model.generateContent: it throws, it resolves without a
\* response, or it resolves with a response whose text() is a string
Throws == [kind |-> "throw", text |-> <<>>]
NoResponse == [kind |-> "noResponse", text |-> <<>>]
Text(t) == [kind |-> "text", text |-> t]
ClassifierOutcomes ==
    { Throws, NoResponse, Text(<<>>), Text(<<"n", "o">>),
      Text(<<" ", "Y", "e", "s", "\n">>) }
CompletionOutcomes == { Throws, NoResponse, Text(<<>>), Text(<<"r">>) }
\* outcomes of Doctor.findOne: the query resolves or rejects
LookupOutcomes == { "ok", "throw" }

Message(r, c) == [role |-> r, content |-> c]

\* "(Khong co phan hoi)", the reply used when the completion has no text
NoReplyText == <<"(Khong co phan hoi)">>
\* the handoff announcement of the confirm branch
ConfirmNotify(doctor) == <<"notify-transferred", doctor.specialty, doctor.name>>
\* the fixed reply of the decline branch
DeclineNotify == <<"notify-declined">>
\* the confirmation question of the generic branch
ConfirmMsg(doctor) == <<"confirm-question", doctor.specialty, doctor.name>>

(* ------------------------------- state ------------------------------- *)
VARIABLES
    conversations,      \* Conversation collection: _id -> document
    nextConvId,         \* next fresh Conversation _id
    tempConversations,  \* TempConversation collection: _id -> document
    nextTempId,         \* next fresh TempConversation _id
    triages,            \* Triage collection, in insertion order
    doctors,            \* Doctor collection, in natural order
    last,               \* the last request: its inputs, external calls and response
    inFlight            \* /chat handlers suspended at an await: slot -> local state

vars == <<conversations, nextConvId, tempConversations, nextTempId, triages,
          doctors, last, inFlight>>

\* the collections
store == <<conversations, nextConvId, tempConversations, nextTempId, triages, doctors>>

\* new Conversation({ userId, messages: [] }) with the schema defaults
NewConversation(userId) ==
    [userId |-> userId, type |-> "ai", doctor |-> Null, pendingDoctor |-> Null,
     messages |-> <<>>]

\* new TempConversation({ userId, messages: [] })
NewTempConversation(userId) == [userId |-> userId, messages |-> <<>>]

\* MessageSchema: content is required, which rejects the empty string
ValidMessages(messages) ==
    \A i \in 1..Len(messages) : messages[i].content # <<>>

\* a lookup that degrades to the placeholder, as the triage routes do
RECURSIVE findOneOrPlaceholder(_, _)
findOneOrPlaceholder(docs, specialty) ==
    IF docs = <<>> THEN PlaceholderDoctor(specialty)
    ELSE IF Head(docs).specialty = specialty THEN Head(docs)
    ELSE findOneOrPlaceholder(Tail(docs), specialty)

\* Doctor.findOne({ specialty }): the first document with that specialty
RECURSIVE findOne(_, _)
findOne(docs, specialty) ==
    IF docs = <<>> THEN Null
    ELSE IF Head(docs).specialty = specialty THEN Head(docs)
    ELSE findOne(Tail(docs), specialty)

\* detectDoctorIntent(text, model) of the doctor-flow variant
detectDoctorIntent(o) ==
    IF o.kind = "text"
    THEN IF includes(toLowerCase(trim(o.text)), kw_yes) THEN "true" ELSE "false"
    ELSE "throw"

\* detectDoctorIntent(text) of the triage variant
detectDoctorIntentTemp(text, o) ==
    IF text = <<>> THEN "false"
    ELSE IF o.kind = "throw" THEN "throw"
    ELSE IF o.kind = "noResponse" THEN "false"
    ELSE IF includes(toLowerCase(trim(o.text)), kw_yes) THEN "true" ELSE "false"

\* result?.response?.text() ?? "(Khong co phan hoi)"
AnswerOf(o) == IF o.kind = "text" THEN o.text ELSE NoReplyText

RECURSIVE SumLen(_, _)
SumLen(f, ids) ==
    IF ids = {} THEN 0
    ELSE LET i == CHOOSE j \in ids : TRUE
         IN  Len(f[i].messages) + SumLen(f, ids \ {i})

\* number of messages stored in both collections
TotalMsgs ==
    SumLen(conversations, DOMAIN conversations)
    + SumLen(tempConversations, DOMAIN tempConversations)

\* the record of the last request: its route and :id, the response status, the
\* document findById loaded (pre), the external calls the handler made in
\* order with the classifier's verdict and the matched specialty, and for a
\* served request (status 200) the text of its body and the answer, doctor
\* and triage the response carries, or the list /conversations returns
NoRequest ==
    [route |-> "none", id |-> 0, status |-> 0, question |-> <<>>,
     answer |-> <<>>, pre |-> Null, calls |-> <<>>,
     wantsDoctor |-> "none", specialty |-> "none", doctor |-> Null,
     triage |-> Null, listed |-> <<>>]

\* the local state of a /chat handler between two awaits: the await it is
\* suspended at (pc), the request's text, the document findById returned with
\* the handler's pushes and assignments (convo), whether the generic branch
\* assigned pendingDoctor, the answer to send, and the response record so far
\* (req.pre is the document as it was loaded)
Slots == 1..MaxInFlight
Handler(pc, question, convo, offered, answer, req) ==
    [pc |-> pc, question |-> question, convo |-> convo, offered |-> offered,
     answer |-> answer, req |-> req]
Idle == Handler("idle", <<>>, Null, FALSE, <<>>, NoRequest)

Init ==
    /\ conversations = <<>>
    /\ nextConvId = 1
    /\ tempConversations = <<>>
    /\ nextTempId = 1
    /\ triages = <<>>
    /\ doctors \in Directories
    /\ last = NoRequest
    /\ inFlight = [r \in Slots |-> Idle]

Request(route, id) == [NoRequest EXCEPT !.route = route, !.id = id]

\* the validation test that forgets the text: "if (!userId)"
MissingFieldUserOnly(userId, text) == userId = NoUser

\* "if (!userId || !question)", "if (!userId || !symptoms)"
MissingField(userId, text) == userId = NoUser \/ text = <<>>

(* ------------------------- POST /conversation ------------------------ *)
\* the route, for a collection that has seen fewer than max conversations
CreateConversationUpTo(userId, max) ==
    IF userId = NoUser
    THEN /\ last' = [Request("conversation", 0) EXCEPT !.status = 400]
         /\ UNCHANGED <<conversations, nextConvId, tempConversations, nextTempId,
                        triages, doctors, inFlight>>
    ELSE /\ nextConvId <= max
         /\ conversations' = (nextConvId :> NewConversation(userId)) @@ conversations
         /\ nextConvId' = nextConvId + 1
         /\ last' = [Request("conversation", nextConvId) EXCEPT !.status = 200]
         /\ UNCHANGED <<tempConversations, nextTempId, triages, doctors, inFlight>>

CreateConversation(userId) == CreateConversationUpTo(userId, MaxConvs)

(* ----------------------- POST /chat/:conversationId ------------------- *)
\* convo.messages.push({ role, content })
Push(convo, role, content) ==
    [convo EXCEPT !.messages = Append(@, Message(role, content))]

\* the two tests of "if (convo.pendingDoctor)" in the other order
PendingBranchNegativeFirst(convo, lower) ==
    IF convo.pendingDoctor # Null
    THEN IF IsNegative(lower) THEN "decline"
         ELSE IF IsAffirmative(lower) THEN "confirm"
         ELSE "fall"
    ELSE "fall"

\* which arm of "if (convo.pendingDoctor)" returns: confirm, decline or neither
PendingBranch(convo, lower) ==
    IF convo.pendingDoctor # Null
    THEN IF IsAffirmative(lower) THEN "confirm"
         ELSE IF IsNegative(lower) THEN "decline"
         ELSE "fall"
    ELSE "fall"

\* ConfirmHandoff without "convo.doctor = convo.pendingDoctor"
ConfirmHandoffNoDoctor(convo) ==
    [convo EXCEPT !.type = "doctor", !.pendingDoctor = Null,
                  !.messages = Append(@, Message("assistant",
                                                 ConfirmNotify(convo.pendingDoctor)))]

\* ConfirmHandoff without "convo.pendingDoctor = null"
ConfirmHandoffKeepPending(convo) ==
    [convo EXCEPT !.type = "doctor", !.doctor = convo.pendingDoctor,
                  !.messages = Append(@, Message("assistant",
                                                 ConfirmNotify(convo.pendingDoctor)))]

\* the affirmative arm: the pending doctor becomes the conversation's doctor
ConfirmHandoff(convo) ==
    Push([convo EXCEPT !.type = "doctor", !.doctor = convo.pendingDoctor,
                       !.pendingDoctor = Null],
         "assistant", ConfirmNotify(convo.pendingDoctor))

\* DeclineHandoff without "convo.pendingDoctor = null"
DeclineHandoffKeepPending(convo) ==
    [convo EXCEPT !.messages = Append(@, Message("assistant", DeclineNotify))]

\* DeclineHandoff without the push of its reply
DeclineHandoffNoReply(convo) == [convo EXCEPT !.pendingDoctor = Null]

\* the negative arm: the offer is dropped
DeclineHandoff(convo) ==
    Push([convo EXCEPT !.pendingDoctor = Null], "assistant", DeclineNotify)

\* the doctor-mode test reading pendingDoctor in place of doctor
InDoctorModeWrongField(convo) == convo.type = "doctor" /\ convo.pendingDoctor # Null

\* "if (convo.type === 'doctor' && convo.doctor)"
InDoctorMode(convo) == convo.type = "doctor" /\ convo.doctor # Null

\* OfferHandoff without "convo.pendingDoctor = doctor"
OfferHandoffNoPending(convo, doctor) ==
    [convo EXCEPT !.messages = Append(@, Message("assistant", ConfirmMsg(doctor)))]

\* the generic branch found a doctor: the offer is stored
OfferHandoff(convo, doctor) ==
    Push([convo EXCEPT !.pendingDoctor = doctor], "assistant", ConfirmMsg(doctor))

\* AppendAnswer that also drops the pending offer
AppendAnswerClearPending(convo, answer) ==
    [convo EXCEPT !.pendingDoctor = Null,
                  !.messages = Append(@, Message("assistant", answer))]

\* AppendAnswer that pushes the reply twice
AppendAnswerTwice(convo, answer) ==
    [convo EXCEPT !.messages = @ \o << Message("assistant", answer),
                                       Message("assistant", answer) >>]

\* a persona completion answered: its reply is appended
AppendAnswer(convo, answer) == Push(convo, "assistant", answer)

\* a handler that saves the user's message before the reply is known, so a
\* rejected final save leaves the message stored
SaveAndRespondUserFirst(id, convo, req, question, answer) ==
    IF ValidMessages(convo.messages)
    THEN /\ conversations' = [conversations EXCEPT ![id] = convo]
         /\ last' = [req EXCEPT !.status = 200, !.question = question,
                                !.answer = answer]
    ELSE /\ conversations' =
               [conversations EXCEPT ![id].messages = Append(@, Message("user", question))]
         /\ last' = [req EXCEPT !.status = 500]

\* await convo.save(), then res.json(...); a rejected save reaches the catch
SaveAndRespond(id, convo, req, question, answer) ==
    IF ValidMessages(convo.messages)
    THEN /\ conversations' = [conversations EXCEPT ![id] = convo]
         /\ last' = [req EXCEPT !.status = 200, !.question = question,
                                !.answer = answer]
    ELSE /\ conversations' = conversations
         /\ last' = [req EXCEPT !.status = 500]

\* the catch block: res.status(500), nothing saved
ChatFail(req) ==
    /\ conversations' = conversations
    /\ last' = [req EXCEPT !.status = 500]

\* a persona completion that is called again when the first call throws
CompleteWithRetry(id, convo, req, question, call) ==
    \E o \in CompletionOutcomes, o2 \in CompletionOutcomes :
        LET req1 == [req EXCEPT !.calls = Append(@, call)]
            req2 == [req1 EXCEPT !.calls = Append(@, call)]
        IN  IF o.kind # "throw"
            THEN SaveAndRespond(id, AppendAnswer(convo, AnswerOf(o)), req1, question,
                                AnswerOf(o))
            ELSE IF o2.kind = "throw"
            THEN ChatFail(req2)
            ELSE SaveAndRespond(id, AppendAnswer(convo, AnswerOf(o2)), req2, question,
                                AnswerOf(o2))

\* a persona completion (doctor or nurse) and the save after it
Complete(id, convo, req, question, call) ==
    \E o \in CompletionOutcomes :
        LET req1 == [req EXCEPT !.calls = Append(@, call)]
        IN  IF o.kind = "throw"
            THEN ChatFail(req1)
            ELSE SaveAndRespond(id, AppendAnswer(convo, AnswerOf(o)), req1, question,
                                AnswerOf(o))

\* section 3 of the route: classify, match a specialty, look a doctor up
GenericBranch(id, convo, req, question, lower) ==
    \E o \in ClassifierOutcomes :
        LET wantsDoctor == detectDoctorIntent(o)
            req1 == [req EXCEPT !.calls = Append(@, "classify"),
                                !.wantsDoctor = wantsDoctor]
        IN  IF wantsDoctor = "throw"
            THEN ChatFail(req1)
            ELSE IF wantsDoctor = "true"
            THEN LET suggestedSpecialty == ChatSpecialty(lower)
                     doctor == findOne(doctors, suggestedSpecialty)
                     req2 == [req1 EXCEPT !.calls = Append(@, "findDoctor"),
                                          !.specialty = suggestedSpecialty]
                 IN  \E lookup \in LookupOutcomes :
                        IF lookup = "throw"
                        THEN ChatFail(req2)
                        ELSE IF doctor # Null
                        THEN SaveAndRespond(id, OfferHandoff(convo, doctor),
                                            [req2 EXCEPT !.doctor = doctor],
                                            question, ConfirmMsg(doctor))
                        ELSE Complete(id, convo, req2, question, "nurse")
            ELSE Complete(id, convo, req1, question, "nurse")

Chat(id, userId, question) ==
    LET req == Request("chat", id)
    IN  /\ UNCHANGED <<nextConvId, tempConversations, nextTempId, triages, doctors,
                       inFlight>>
        /\ IF MissingField(userId, question)
           THEN /\ last' = [req EXCEPT !.status = 400]
                /\ conversations' = conversations
           ELSE IF id \notin DOMAIN conversations
           THEN /\ last' = [req EXCEPT !.status = 404]
                /\ conversations' = conversations
           ELSE LET stored == conversations[id]
                    convo == Push(stored, "user", question)
                    lower == toLowerCase(question)
                    branch == PendingBranch(convo, lower)
                    req0 == [req EXCEPT !.pre = stored]
                IN  /\ TotalMsgs + 2 <= 2 * MaxTurns
                    /\ IF branch = "confirm"
                       THEN SaveAndRespond(id, ConfirmHandoff(convo),
                                [req0 EXCEPT !.doctor = convo.pendingDoctor],
                                question, ConfirmNotify(convo.pendingDoctor))
                       ELSE IF branch = "decline"
                       THEN SaveAndRespond(id, DeclineHandoff(convo), req0, question,
                                           DeclineNotify)
                       ELSE IF InDoctorMode(convo)
                       THEN Complete(id, convo, [req0 EXCEPT !.doctor = convo.doctor],
                                     question, "doctor")
                       ELSE GenericBranch(id, convo, req0, question, lower)

(* ------- POST /chat/:conversationId, one step for each await ---------- *)
\* The handler of /chat is an async function: other requests run while it is
\* suspended at findById, at a model call, at Doctor.findOne or at save.  Each
\* action below is the code between two awaits.

\* handlers that are suspended
Busy == { r \in Slots : inFlight[r].pc # "idle" }

\* a save that writes the handler's whole copy of the document
SaveWholeDocument(stored, loaded, convo, marked) == convo

\* convo.save() of a loaded document writes the changes made to it since it
\* was loaded: the pushed messages are appended to the stored array ($push)
\* and each assigned path whose value changed is set ($set); marked says
\* whether "convo.pendingDoctor = doctor" counts as a change when the doctor
\* equals the pending one that was loaded
SaveChanges(stored, loaded, convo, marked) ==
    [stored EXCEPT
        !.messages = @ \o SubSeq(convo.messages, Len(loaded.messages) + 1,
                                 Len(convo.messages)),
        !.type = IF convo.type # loaded.type THEN convo.type ELSE @,
        !.doctor = IF convo.doctor # loaded.doctor THEN convo.doctor ELSE @,
        !.pendingDoctor = IF convo.pendingDoctor # loaded.pendingDoctor \/ marked
                          THEN convo.pendingDoctor ELSE @]

\* the request is validated, findById resolves, the user's message is pushed
\* and the handler runs to its next await
ChatLoad(r, id, userId, question) ==
    LET req == Request("chat", id)
    IN  /\ inFlight[r].pc = "idle"
        /\ UNCHANGED store
        /\ IF MissingField(userId, question)
           THEN /\ last' = [req EXCEPT !.status = 400]
                /\ inFlight' = inFlight
           ELSE IF id \notin DOMAIN conversations
           THEN /\ last' = [req EXCEPT !.status = 404]
                /\ inFlight' = inFlight
           ELSE LET stored == conversations[id]
                    convo == Push(stored, "user", question)
                    lower == toLowerCase(question)
                    branch == PendingBranch(convo, lower)
                    req0 == [req EXCEPT !.pre = stored]
                IN  /\ TotalMsgs + 2 * Cardinality(Busy) + 2 <= 2 * MaxTurns
                    /\ last' = last
                    /\ inFlight' = [inFlight EXCEPT ![r] =
                          IF branch = "confirm"
                          THEN Handler("save", question, ConfirmHandoff(convo), FALSE,
                                       ConfirmNotify(convo.pendingDoctor),
                                       [req0 EXCEPT !.doctor = convo.pendingDoctor])
                          ELSE IF branch = "decline"
                          THEN Handler("save", question, DeclineHandoff(convo), FALSE,
                                       DeclineNotify, req0)
                          ELSE IF InDoctorMode(convo)
                          THEN Handler("doctor", question, convo, FALSE, <<>>,
                                       [req0 EXCEPT !.doctor = convo.doctor,
                                                    !.calls = <<"doctor">>])
                          ELSE Handler("classify", question, convo, FALSE, <<>>,
                                       [req0 EXCEPT !.calls = <<"classify">>])]

\* the catch block of a suspended handler
ChatAbort(r, req) ==
    /\ last' = [req EXCEPT !.status = 500]
    /\ inFlight' = [inFlight EXCEPT ![r] = Idle]

\* detectDoctorIntent resolves or throws
ChatClassify(r) ==
    LET h == inFlight[r]
    IN  /\ h.pc = "classify"
        /\ UNCHANGED store
        /\ \E o \in ClassifierOutcomes :
              LET wantsDoctor == detectDoctorIntent(o)
                  req1 == [h.req EXCEPT !.wantsDoctor = wantsDoctor]
              IN  IF wantsDoctor = "throw"
                  THEN ChatAbort(r, req1)
                  ELSE /\ last' = last
                       /\ inFlight' = [inFlight EXCEPT ![r] =
                            IF wantsDoctor = "true"
                            THEN [h EXCEPT !.pc = "findDoctor",
                                    !.req = [req1 EXCEPT
                                       !.calls = Append(@, "findDoctor"),
                                       !.specialty = ChatSpecialty(toLowerCase(h.question))]]
                            ELSE [h EXCEPT !.pc = "nurse",
                                    !.req = [req1 EXCEPT !.calls = Append(@, "nurse")]]]

\* Doctor.findOne resolves or rejects
ChatLookup(r) ==
    LET h == inFlight[r]
        doctor == findOne(doctors, h.req.specialty)
    IN  /\ h.pc = "findDoctor"
        /\ UNCHANGED store
        /\ \E lookup \in LookupOutcomes :
              IF lookup = "throw"
              THEN ChatAbort(r, h.req)
              ELSE /\ last' = last
                   /\ inFlight' = [inFlight EXCEPT ![r] =
                        IF doctor # Null
                        THEN [h EXCEPT !.pc = "save",
                                !.convo = OfferHandoff(h.convo, doctor),
                                !.offered = TRUE,
                                !.answer = ConfirmMsg(doctor),
                                !.req = [h.req EXCEPT !.doctor = doctor]]
                        ELSE [h EXCEPT !.pc = "nurse",
                                !.req = [h.req EXCEPT !.calls = Append(@, "nurse")]]]

\* the persona completion (doctor or nurse) resolves or throws
ChatComplete(r) ==
    LET h == inFlight[r]
    IN  /\ h.pc \in {"doctor", "nurse"}
        /\ UNCHANGED store
        /\ \E o \in CompletionOutcomes :
              IF o.kind = "throw"
              THEN ChatAbort(r, h.req)
              ELSE /\ last' = last
                   /\ inFlight' = [inFlight EXCEPT ![r] =
                        [h EXCEPT !.pc = "save",
                                  !.convo = AppendAnswer(h.convo, AnswerOf(o)),
                                  !.answer = AnswerOf(o)]]

\* convo.save() resolves or rejects, and the response is sent
ChatSave(r) ==
    LET h == inFlight[r]
        id == h.req.id
    IN  /\ h.pc = "save"
        /\ UNCHANGED <<nextConvId, tempConversations, nextTempId, triages, doctors>>
        /\ IF ValidMessages(h.convo.messages)
           THEN /\ \E marked \in (IF h.offered
                                     /\ h.convo.pendingDoctor = h.req.pre.pendingDoctor
                                  THEN BOOLEAN ELSE {FALSE}) :
                      conversations' = [conversations EXCEPT ![id] =
                          SaveChanges(conversations[id], h.req.pre, h.convo, marked)]
                /\ last' = [h.req EXCEPT !.status = 200, !.question = h.question,
                                         !.answer = h.answer]
                /\ inFlight' = [inFlight EXCEPT ![r] = Idle]
           ELSE /\ conversations' = conversations
                /\ ChatAbort(r, h.req)

(* ----------------------- POST /temp-conversation ---------------------- *)
CreateTempConversation(userId) ==
    IF userId = NoUser
    THEN /\ last' = [Request("tempConversation", 0) EXCEPT !.status = 400]
         /\ UNCHANGED <<conversations, nextConvId, tempConversations, nextTempId,
                        triages, doctors, inFlight>>
    ELSE /\ nextTempId <= MaxTemps
         /\ tempConversations' =
                (nextTempId :> NewTempConversation(userId)) @@ tempConversations
         /\ nextTempId' = nextTempId + 1
         /\ last' = [Request("tempConversation", nextTempId) EXCEPT !.status = 200]
         /\ UNCHANGED <<conversations, nextConvId, triages, doctors, inFlight>>

(* -------------------- POST /temp-chat/:tempConversationId ------------- *)
\* new Triage({ userId, symptoms, suggestedSpecialty })
NewTriage(userId, symptoms, suggestedSpecialty) ==
    [userId |-> userId, symptoms |-> symptoms,
     suggestedSpecialty |-> suggestedSpecialty]

\* the doctor a triage answer carries: the directory's, else the placeholder
DoctorOrPlaceholder(docs, suggestedSpecialty) ==
    IF findOne(docs, suggestedSpecialty) # Null
    THEN findOne(docs, suggestedSpecialty)
    ELSE PlaceholderDoctor(suggestedSpecialty)

\* the catch block of /temp-chat: nothing of the conversation is saved
TempChatFail(req) ==
    /\ tempConversations' = tempConversations
    /\ last' = [req EXCEPT !.status = 500]

\* the completion over the whole history, and the save after it
TempComplete(id, tempConvo, req, question) ==
    \E o \in CompletionOutcomes :
        LET req1 == [req EXCEPT !.calls = Append(@, "nurse")]
            answer == AnswerOf(o)
            saved == Push(tempConvo, "assistant", answer)
        IN  IF o.kind = "throw"
            THEN TempChatFail(req1)
            ELSE IF ValidMessages(saved.messages)
            THEN /\ tempConversations' = [tempConversations EXCEPT ![id] = saved]
                 /\ last' = [req1 EXCEPT !.status = 200, !.question = question,
                                         !.answer = answer]
            ELSE TempChatFail(req1)

TempChat(id, userId, question) ==
    LET req == Request("tempChat", id)
    IN  /\ UNCHANGED <<conversations, nextConvId, nextTempId, doctors, inFlight>>
        /\ IF MissingField(userId, question)
           THEN /\ last' = [req EXCEPT !.status = 400]
                /\ UNCHANGED <<tempConversations, triages>>
           ELSE IF id \notin DOMAIN tempConversations
           THEN /\ last' = [req EXCEPT !.status = 404]
                /\ UNCHANGED <<tempConversations, triages>>
           ELSE LET stored == tempConversations[id]
                    tempConvo == Push(stored, "user", question)
                    req0 == [req EXCEPT !.pre = stored]
                IN  /\ TotalMsgs + 2 <= 2 * MaxTempTurns
                    /\ \E o \in ClassifierOutcomes :
                         LET wantsDoctor == detectDoctorIntentTemp(question, o)
                             req1 == [req0 EXCEPT !.calls = Append(@, "classify"),
                                                  !.wantsDoctor = wantsDoctor]
                         IN  IF wantsDoctor = "throw"
                             THEN /\ TempChatFail(req1)
                                  /\ triages' = triages
                             ELSE IF wantsDoctor = "true"
                             THEN LET suggestedSpecialty ==
                                          TempChatSpecialty(toLowerCase(question))
                                      triage == NewTriage(userId, question,
                                                          suggestedSpecialty)
                                      req2 == [req1 EXCEPT
                                                 !.calls = @ \o <<"saveTriage", "findDoctor">>,
                                                 !.specialty = suggestedSpecialty,
                                                 !.triage = triage]
                                  IN  /\ Len(triages) < MaxTriages
                                      /\ triages' = Append(triages, triage)
                                      /\ \E lookup \in LookupOutcomes :
                                            IF lookup = "throw"
                                            THEN TempChatFail(req2)
                                            ELSE TempComplete(id, tempConvo,
                                                   [req2 EXCEPT !.doctor =
                                                      DoctorOrPlaceholder(doctors,
                                                         suggestedSpecialty)],
                                                   question)
                             ELSE /\ triages' = triages
                                  /\ TempComplete(id, tempConvo, req1, question)

(* ----------------------------- POST /triage -------------------------- *)
Triage(userId, symptoms) ==
    LET req == Request("triage", 0)
    IN  /\ UNCHANGED <<conversations, nextConvId, tempConversations, nextTempId,
                       doctors, inFlight>>
        /\ IF MissingField(userId, symptoms)
           THEN /\ last' = [req EXCEPT !.status = 400]
                /\ triages' = triages
           ELSE LET suggestedSpecialty == TriageSpecialty(toLowerCase(symptoms))
                    triage == NewTriage(userId, symptoms, suggestedSpecialty)
                    req1 == [req EXCEPT !.calls = <<"saveTriage", "findDoctor">>,
                                        !.specialty = suggestedSpecialty,
                                        !.triage = triage]
                IN  /\ Len(triages) < MaxTriages
                    /\ triages' = Append(triages, triage)
                    /\ \E lookup \in LookupOutcomes :
                          IF lookup = "throw"
                          THEN last' = [req1 EXCEPT !.status = 500]
                          ELSE last' = [req1 EXCEPT
                                          !.status = 200, !.question = symptoms,
                                          !.doctor = DoctorOrPlaceholder(doctors,
                                                        suggestedSpecialty)]

(* --------------------------- specification --------------------------- *)
ConvIdInputs == 1..MaxConvs
TempIdInputs == 1..MaxTemps

Next ==
    \/ \E userId \in UserInputs : CreateConversation(userId)
    \/ \E id \in ConvIdInputs, userId \in UserInputs, question \in QuestionInputs :
          Chat(id, userId, question)

\* the doctor-flow variant: conversations and the /chat state machine
Spec == Init /\ [][Next]_vars

NextTriage ==
    \/ \E userId \in UserInputs : CreateTempConversation(userId)
    \/ \E id \in TempIdInputs, userId \in UserInputs, question \in QuestionInputs :
          TempChat(id, userId, question)
    \/ \E userId \in UserInputs, symptoms \in QuestionInputs :
          Triage(userId, symptoms)

\* the triage variant: temporary conversations and triage
SpecTriage == Init /\ [][NextTriage]_vars

\* the requests of SpecRoutes: one user, one text for each arm of /chat
RouteUsers == {"u1", NoUser}
RouteQuestions == { <<"C", "o'">>, kw_khong, kw_tim \o sp \o kw_da, <<>> }

NextRoutes ==
    \/ \E userId \in RouteUsers : CreateConversation(userId)
    \/ \E id \in ConvIdInputs, userId \in RouteUsers, question \in RouteQuestions :
          Chat(id, userId, question)
    \/ \E userId \in RouteUsers : CreateTempConversation(userId)
    \/ \E id \in TempIdInputs, userId \in RouteUsers, question \in RouteQuestions :
          TempChat(id, userId, question)
    \/ \E userId \in RouteUsers, symptoms \in RouteQuestions :
          Triage(userId, symptoms)

\* both variants over the one store
SpecRoutes == Init /\ [][NextRoutes]_vars

\* the texts of the overlapping requests: a confirmation and one text for
\* each of two specialties
OverlapQuestions == { <<"C", "o'">>, kw_tim \o sp \o kw_da, kw_mun, <<>> }

NextOverlap ==
    \/ \E userId \in RouteUsers : CreateConversation(userId)
    \/ \E r \in Slots, id \in ConvIdInputs, userId \in RouteUsers,
          question \in OverlapQuestions :
          ChatLoad(r, id, userId, question)
    \/ \E r \in Slots : ChatClassify(r)
    \/ \E r \in Slots : ChatLookup(r)
    \/ \E r \in Slots : ChatComplete(r)
    \/ \E r \in Slots : ChatSave(r)

\* /chat requests that overlap: each handler is interleaved with the others
\* at its awaits
SpecOverlap == Init /\ [][NextOverlap]_vars

(* ------------------------- conversation APIs -------------------------- *)
\* length of a preview
PreviewLen == 30
\* "(Khong co noi dung)"
NoPreview == <<"(Khong co noi dung)">>

\* a purge that also removes the conversations holding a single turn
PurgeShort(convs) ==
    [id \in { i \in DOMAIN convs : Len(convs[i].messages) > 2 } |-> convs[id]]

\* Conversation.deleteMany({ messages: { $size: 0 } })
Purge(convs) ==
    [id \in { i \in DOMAIN convs : convs[i].messages # <<>> } |-> convs[id]]

\* String.prototype.slice(0, n)
Slice(text, n) == SubSeq(text, 1, IF Len(text) < n THEN Len(text) ELSE n)

\* c.messages[0]?.content.slice(0, 30) || "(Khong co noi dung)"
Preview(convo) ==
    IF convo.messages = <<>> THEN NoPreview
    ELSE IF Slice(convo.messages[1].content, PreviewLen) = <<>> THEN NoPreview
    ELSE Slice(convo.messages[1].content, PreviewLen)

\* Conversation.find({ userId }).sort({ createdAt: -1 }) mapped to
\* { id, preview }: the newest conversation first
RECURSIVE Listing(_, _, _)
Listing(convs, userId, ids) ==
    IF ids = {} THEN <<>>
    ELSE LET newest == CHOOSE i \in ids : \A j \in ids : j <= i
         IN  <<[id |-> newest, preview |-> Preview(convs[newest])]>>
             \o Listing(convs, userId, ids \ {newest})

\* GET /conversations/:userId
ListConversations(userId) ==
    LET kept == Purge(conversations)
        own == { id \in DOMAIN kept : kept[id].userId = userId }
    IN  /\ conversations' = kept
        /\ last' = [Request("conversations", 0) EXCEPT
                      !.status = 200, !.listed = Listing(kept, userId, own)]
        /\ UNCHANGED <<nextConvId, tempConversations, nextTempId, triages, doctors,
                       inFlight>>

\* DELETE /conversation/:id
DeleteConversation(id) ==
    /\ UNCHANGED <<nextConvId, tempConversations, nextTempId, triages, doctors,
                   inFlight>>
    /\ IF id \notin DOMAIN conversations
       THEN /\ last' = [Request("deleteConversation", id) EXCEPT !.status = 404]
            /\ conversations' = conversations
       ELSE /\ last' = [Request("deleteConversation", id) EXCEPT !.status = 200]
            /\ conversations' =
                  [i \in DOMAIN conversations \ {id} |-> conversations[i]]

\* the requests of SpecStore: two users, and one text to fill a transcript
StoreIdInputs == 1..MaxStoreConvs
StoreQuestions == { kw_tim \o sp \o kw_da, <<>> }

NextStore ==
    \/ \E userId \in UserInputs : CreateConversationUpTo(userId, MaxStoreConvs)
    \/ \E id \in StoreIdInputs, userId \in RouteUsers, question \in StoreQuestions :
          Chat(id, userId, question)
    \/ \E userId \in Users : ListConversations(userId)
    \/ \E id \in StoreIdInputs : DeleteConversation(id)

\* the doctor-flow variant with its listing and deletion routes
SpecStore == Init /\ [][NextStore]_vars

(* ------------- POST /end-temp-conversation/:tempConversationId -------- *)
\* a permanent conversation that takes the temporary transcript along
FixedConversationWithMessages(tempConvo) ==
    [NewConversation(tempConvo.userId) EXCEPT !.messages = tempConvo.messages]

\* new Conversation({ userId: tempConvo.userId, createdAt, messages: [] })
FixedConversation(tempConvo) == NewConversation(tempConvo.userId)

EndTempConversation(id) ==
    LET req == Request("endTempConversation", id)
    IN  /\ UNCHANGED <<nextTempId, triages, doctors, inFlight>>
        /\ IF id \notin DOMAIN tempConversations
           THEN /\ last' = [req EXCEPT !.status = 404]
                /\ UNCHANGED <<conversations, nextConvId, tempConversations>>
           ELSE LET tempConvo == tempConversations[id]
                IN  /\ nextConvId <= MaxConvs
                    /\ conversations' =
                          (nextConvId :> FixedConversation(tempConvo)) @@ conversations
                    /\ nextConvId' = nextConvId + 1
                    /\ tempConversations' =
                          [i \in DOMAIN tempConversations \ {id} |-> tempConversations[i]]
                    /\ last' = [req EXCEPT !.status = 200, !.pre = tempConvo]

\* In SpecEnd a permanent conversation is only ever created by ending a
\* temporary one, so every stored conversation is an ended temporary one.
NextEnd ==
    \/ \E userId \in UserInputs : CreateTempConversation(userId)
    \/ \E id \in TempIdInputs, userId \in RouteUsers, question \in StoreQuestions :
          TempChat(id, userId, question)
    \/ \E id \in TempIdInputs : EndTempConversation(id)
    \/ \E userId \in Users : ListConversations(userId)
    \/ \E id \in ConvIdInputs, userId \in RouteUsers, question \in StoreQuestions :
          Chat(id, userId, question)

\* temporary conversations that are ended, listed and written to
SpecEnd == Init /\ [][NextEnd]_vars

(* --------------------------- detectDoctorIntent ----------------------- *)
\* texts of up to n characters
RECURSIVE TextsUpTo(_, _)
TextsUpTo(chars, n) ==
    IF n = 0 THEN { <<>> }
    ELSE LET shorter == TextsUpTo(chars, n - 1)
         IN  shorter \cup { Append(t, c) : t \in shorter, c \in chars }

\* what generateContent may do when the classifier calls it: throw, resolve
\* without a response, or resolve with a response text
AnswerChars == { "y", "Y", "e", "s", "n", " " }
ClassifierResponses ==
    { Throws, NoResponse } \cup { Text(t) : t \in TextsUpTo(AnswerChars, MaxAnswerLen) }

\* one call of detectDoctorIntent(text, model) of the doctor-flow variant
Classify(text, o) ==
    /\ last' = [route |-> "detectDoctorIntent", text |-> text, outcome |-> o,
                wantsDoctor |-> detectDoctorIntent(o)]
    /\ UNCHANGED <<store, inFlight>>

\* one call of detectDoctorIntent(text) of the triage variant
ClassifyTemp(text, o) ==
    /\ last' = [route |-> "detectDoctorIntentTemp", text |-> text, outcome |-> o,
                wantsDoctor |-> detectDoctorIntentTemp(text, o)]
    /\ UNCHANGED <<store, inFlight>>

\* the text argument: a question, or nothing
ClassifierTexts == { kw_mun, <<>> }

NextClassifier ==
    \/ \E text \in ClassifierTexts, o \in ClassifierResponses : Classify(text, o)
    \/ \E text \in ClassifierTexts, o \in ClassifierResponses : ClassifyTemp(text, o)

\* the intent classifier of both variants on its own
SpecClassifier == Init /\ [][NextClassifier]_vars

(* ------------------------------ properties --------------------------- *)
\* mode of a stored conversation, read off type and pendingDoctor
Mode(convo) ==
    IF convo.type = "doctor" THEN "doctorActive"
    ELSE IF convo.pendingDoctor # Null THEN "doctorHandoffPending"
    ELSE "generic"

\* the last request was a /chat request that found its conversation
ChatFound == last.route = "chat" /\ last.pre # Null
\* the last request was a served /chat request
ChatServed == last.route = "chat" /\ last.status = 200
\* the stored conversation the last /chat request addressed
Cur == conversations[last.id]
\* the two messages a served turn adds
Turn == << Message("user", last.question), Message("assistant", last.answer) >>
LastLower == toLowerCase(last.question)

\* C1: every served /chat or /temp-chat request extends the stored transcript
\* by exactly two messages: the user message with the incoming text, then the
\* assistant message with the returned answer.
C1_TwoMessagesPerTurn ==
    /\ ChatServed => Cur.messages = last.pre.messages \o Turn
    /\ (last.route = "tempChat" /\ last.status = 200) =>
          tempConversations[last.id].messages = last.pre.messages \o Turn

\* C1 witness: a served doctor-persona turn on a conversation that already
\* went through the offer and the confirmation.
C1_Witness ==
    /\ ChatServed
    /\ last.calls = <<"doctor">>
    /\ Len(Cur.messages) = 6

\* C2: in doctorHandoffPending mode a text with an affirmative token ends in
\* doctorActive with the prior pendingDoctor assigned and no pendingDoctor.
C2_AffirmativeConfirms ==
    (ChatFound /\ last.pre.pendingDoctor # Null /\ last.status = 200
        /\ IsAffirmative(LastLower)) =>
       /\ Cur.type = "doctor"
       /\ Cur.doctor = last.pre.pendingDoctor
       /\ Cur.pendingDoctor = Null

C2_Witness ==
    /\ ChatServed
    /\ last.pre.pendingDoctor # Null
    /\ IsAffirmative(LastLower)
    /\ Mode(Cur) = "doctorActive"

\* C3 as claimed: in doctorHandoffPending mode every text with a negative token
\* ends in generic mode with no pendingDoctor and no assigned doctor.
C3_NegativeAlwaysDeclines ==
    (ChatServed /\ last.pre.pendingDoctor # Null /\ IsNegative(LastLower)) =>
       /\ Mode(Cur) = "generic"
       /\ Cur.doctor = Null

\* C3 amended: in doctorHandoffPending mode a text with a negative token and no
\* affirmative token ends in generic mode with no pendingDoctor and no doctor.
C3_NegativeOnlyDeclines ==
    (ChatServed /\ last.pre.pendingDoctor # Null /\ IsNegative(LastLower)
        /\ ~IsAffirmative(LastLower)) =>
       /\ Mode(Cur) = "generic"
       /\ Cur.pendingDoctor = Null
       /\ Cur.doctor = Null
       /\ last.answer = DeclineNotify

C3_Witness ==
    /\ ChatServed
    /\ last.pre.pendingDoctor # Null
    /\ IsNegative(LastLower)
    /\ ~IsAffirmative(LastLower)
    /\ Mode(Cur) = "generic"

\* the last /chat request met a pending offer and its text had neither token
PendingNeither ==
    /\ ChatServed
    /\ last.pre.pendingDoctor # Null
    /\ ~IsAffirmative(LastLower)
    /\ ~IsNegative(LastLower)

\* C4 as claimed: in doctorHandoffPending mode a text with neither token leaves
\* mode and pendingDoctor as they were, whatever the classifier and the
\* directory return, and the reply is the nurse-persona completion's.
C4_NeitherLeavesPending ==
    PendingNeither =>
       /\ Cur.type = last.pre.type
       /\ Cur.pendingDoctor = last.pre.pendingDoctor
       /\ last.calls[Len(last.calls)] = "nurse"

\* C4 amended: such a text leaves the mode doctorHandoffPending; when the
\* classifier answers false or the directory has no doctor of the matched
\* specialty, pendingDoctor is unchanged and the reply is the nurse-persona
\* completion's; when the classifier answers true and a doctor is found, that
\* doctor replaces pendingDoctor and the reply is the confirmation question.
C4_NeitherFallsThrough ==
    PendingNeither =>
       /\ Mode(Cur) = "doctorHandoffPending"
       /\ Cur.doctor = Null
       /\ IF last.wantsDoctor = "true"
             /\ findOne(doctors, ChatSpecialty(LastLower)) # Null
          THEN /\ Cur.pendingDoctor = findOne(doctors, ChatSpecialty(LastLower))
               /\ last.answer = ConfirmMsg(Cur.pendingDoctor)
               /\ last.calls = <<"classify", "findDoctor">>
          ELSE /\ Cur.pendingDoctor = last.pre.pendingDoctor
               /\ last.calls[Len(last.calls)] = "nurse"
               /\ last.answer # ConfirmMsg(Cur.pendingDoctor)

\* C4 witness: the fall-through answered by the nurse persona, offer kept.
C4_Witness ==
    /\ PendingNeither
    /\ last.wantsDoctor = "false"
    /\ Cur.pendingDoctor = last.pre.pendingDoctor

\* the Specialty Matcher in its stated order (4.2): Cardiology, then Dermatology,
\* then ENT, else General Medicine
SpecialtyMatcher(lower) ==
    CASE includes(lower, kw_tim) \/ includes(lower, kw_huyetap) -> Cardiology
      [] OTHER ->
         CASE includes(lower, kw_da) \/ includes(lower, kw_mun) -> Dermatology
           [] OTHER ->
              CASE includes(lower, kw_tai) \/ includes(lower, kw_mui)
                   \/ includes(lower, kw_hong) -> ENT
                [] OTHER -> General

\* C5: on every route the specialty of a text is the first matching group in
\* the order Cardiology, Dermatology, ENT, else General Medicine: every triage
\* record (written by /temp-chat and /triage) and every specialty the /chat
\* route matched carries that specialty.
C5_SameSpecialtyEveryRoute ==
    /\ \A i \in 1..Len(triages) :
          triages[i].suggestedSpecialty
             = SpecialtyMatcher(toLowerCase(triages[i].symptoms))
    /\ (ChatServed /\ last.specialty # "none") =>
          last.specialty = SpecialtyMatcher(LastLower)

\* C6: in generic mode, when the classifier answers true and the directory has
\* a doctor of the matched specialty, the turn ends in doctorHandoffPending
\* with that doctor pending, the reply is the confirmation question, and the
\* nurse-persona completion is not called.
C6_OfferWithoutCompletion ==
    (ChatFound /\ Mode(last.pre) = "generic" /\ last.wantsDoctor = "true"
        /\ findOne(doctors, last.specialty) # Null) =>
       /\ last.calls = <<"classify", "findDoctor">>
       /\ last.status = 200 =>
             /\ last.specialty = ChatSpecialty(LastLower)
             /\ Mode(Cur) = "doctorHandoffPending"
             /\ Cur.pendingDoctor = findOne(doctors, last.specialty)
             /\ Cur.doctor = Null
             /\ last.answer = ConfirmMsg(findOne(doctors, last.specialty))
             /\ last.doctor = Cur.pendingDoctor

C6_Witness ==
    /\ ChatServed
    /\ Mode(last.pre) = "generic"
    /\ last.wantsDoctor = "true"
    /\ Mode(Cur) = "doctorHandoffPending"
    /\ Cur.pendingDoctor.specialty = Cardiology

\* C7: in generic mode, when the classifier answers false, the nurse-persona
\* completion is called exactly once, a served turn appends exactly one
\* assistant message, that completion's reply, and the conversation stays
\* generic with no pending and no assigned doctor.
C7_GenericReply ==
    (ChatFound /\ Mode(last.pre) = "generic" /\ last.wantsDoctor = "false") =>
       /\ last.calls = <<"classify", "nurse">>
       /\ Mode(Cur) = "generic"
       /\ Cur.pendingDoctor = Null
       /\ Cur.doctor = Null
       /\ IF last.status = 200
          THEN /\ Cur.messages = last.pre.messages \o Turn
               /\ last.answer \in {<<"r">>, NoReplyText}
          ELSE Cur = last.pre

C7_Witness ==
    /\ ChatServed
    /\ Mode(last.pre) = "generic"
    /\ last.wantsDoctor = "false"
    /\ last.answer = <<"r">>
    /\ Len(Cur.messages) = Len(last.pre.messages) + 2

\* C8: in every stored conversation a doctor is assigned iff type is 'doctor',
\* and a pending doctor never goes with type 'doctor'.
C8_ModeFieldsConsistent ==
    \A id \in DOMAIN conversations :
       /\ conversations[id].doctor # Null <=> conversations[id].type = "doctor"
       /\ ~(conversations[id].pendingDoctor # Null /\ conversations[id].type = "doctor")

\* C8 witness: a conversation that was offered a doctor, confirmed, and then
\* took a further turn in doctor mode.
C8_Witness ==
    \E id \in DOMAIN conversations :
       /\ conversations[id].type = "doctor"
       /\ conversations[id].doctor # Null
       /\ Len(conversations[id].messages) = 6

\* C9: doctorActive is absorbing under /chat: a /chat step leaves every
\* conversation that is in doctorActive in doctorActive with the same doctor
\* and no pending doctor, and a request that reaches such a conversation calls
\* the doctor-persona completion and nothing else (no classifier call).
C9_DoctorActiveAbsorbing ==
    [][ last'.route = "chat" =>
          \A id \in DOMAIN conversations :
             conversations[id].type = "doctor" =>
                /\ id \in DOMAIN conversations'
                /\ conversations'[id].type = "doctor"
                /\ conversations'[id].doctor = conversations[id].doctor
                /\ conversations'[id].pendingDoctor = Null
                /\ (last'.id = id /\ last'.pre # Null) =>
                      /\ last'.calls = <<"doctor">>
                      /\ last'.wantsDoctor = "none"
                      /\ last'.status = 200 =>
                            conversations'[id].messages
                               = conversations[id].messages
                                 \o << Message("user", last'.question),
                                       Message("assistant", last'.answer) >>
      ]_vars

\* C9 witness: a served turn on a doctorActive conversation whose text has a
\* negative token.
C9_Witness ==
    /\ ChatServed
    /\ last.pre.type = "doctor"
    /\ IsNegative(LastLower)
    /\ Cur.type = "doctor"

\* C10: whenever /chat or /temp-chat reaches the generic branch and the
\* classifier answers true, a Triage record with the incoming text and the
\* matched specialty is appended during that request, before the doctor lookup.
C10_TriageRecordWritten ==
    (last.route \in {"chat", "tempChat"} /\ last.wantsDoctor = "true") =>
       /\ last.triage # Null
       /\ triages # <<>>
       /\ triages[Len(triages)] = last.triage
       /\ last.triage.suggestedSpecialty = last.specialty
       /\ SubSeq(last.calls, 1, 3) = <<"classify", "saveTriage", "findDoctor">>
       /\ last.status = 200 => last.triage.symptoms = last.question

\* the /temp-chat half of C10, which the code does implement
C10_TempChatTriageWritten ==
    (last.route = "tempChat" /\ last.wantsDoctor = "true") =>
       /\ last.triage # Null
       /\ triages # <<>>
       /\ triages[Len(triages)] = last.triage
       /\ last.triage.suggestedSpecialty = last.specialty
       /\ SubSeq(last.calls, 1, 3) = <<"classify", "saveTriage", "findDoctor">>
       /\ last.status = 200 => last.triage.symptoms = last.question

\* C11: a /chat or /temp-chat request without userId or without question is
\* answered 400 and one naming an unknown id 404; a /triage request without
\* userId or symptoms is answered 400; in each case nothing stored changes
\* (no conversation, triage record or doctor) and no external call is made.
C11_RejectedRequestsChangeNothing ==
    [][ /\ \A id \in ConvIdInputs, userId \in RouteUsers, question \in RouteQuestions :
             /\ ((userId = NoUser \/ question = <<>>)
                   /\ Chat(id, userId, question)) =>
                   (last'.status = 400 /\ last'.calls = <<>> /\ UNCHANGED store)
             /\ (userId # NoUser /\ question # <<>>
                   /\ id \notin DOMAIN conversations
                   /\ Chat(id, userId, question)) =>
                   (last'.status = 404 /\ last'.calls = <<>> /\ UNCHANGED store)
        /\ \A id \in TempIdInputs, userId \in RouteUsers, question \in RouteQuestions :
             /\ ((userId = NoUser \/ question = <<>>)
                   /\ TempChat(id, userId, question)) =>
                   (last'.status = 400 /\ last'.calls = <<>> /\ UNCHANGED store)
             /\ (userId # NoUser /\ question # <<>>
                   /\ id \notin DOMAIN tempConversations
                   /\ TempChat(id, userId, question)) =>
                   (last'.status = 404 /\ last'.calls = <<>> /\ UNCHANGED store)
        /\ \A userId \in RouteUsers, symptoms \in RouteQuestions :
             ((userId = NoUser \/ symptoms = <<>>) /\ Triage(userId, symptoms)) =>
                (last'.status = 400 /\ last'.calls = <<>> /\ UNCHANGED store)
        /\ last'.status \in {400, 404} => (last'.calls = <<>> /\ UNCHANGED store)
      ]_vars

\* C11 witness: a rejected /chat request on a store that holds a transcript.
C11_Witness ==
    /\ last.route = "chat"
    /\ last.status = 400
    /\ \E id \in DOMAIN conversations : Len(conversations[id].messages) >= 2

\* C12: a /chat request that fails in the classifier call, the doctor lookup
\* or the completion call (or in the final save) is answered 500 and leaves
\* the stored conversation, and everything else stored, as it was: the user's
\* message of the request is not stored.
C12_FailedChatStoresNothing ==
    [][ last'.route = "chat" =>
          /\ last'.wantsDoctor = "throw" => last'.status = 500
          /\ last'.status = 500 =>
                /\ UNCHANGED store
                /\ last'.pre = conversations[last'.id]
                /\ Len(last'.calls) >= 1
                /\ last'.calls[Len(last'.calls)]
                      \in {"classify", "findDoctor", "nurse", "doctor"}
      ]_vars

\* C12 witness: the nurse completion failed after the classifier answered, on
\* a conversation that holds a transcript.
C12_Witness ==
    /\ last.route = "chat"
    /\ last.status = 500
    /\ last.calls = <<"classify", "nurse">>
    /\ Len(conversations[last.id].messages) >= 2

\* a step in which the handler in slot r has its save accepted
Saved(r) ==
    /\ inFlight[r].pc = "save"
    /\ inFlight'[r].pc = "idle"
    /\ last'.status = 200
    /\ conversations' # conversations

\* C13 as claimed: when two /chat requests on one conversation overlap, the
\* later save replaces the stored conversation by the later writer's copy, so
\* that after every accepted save the stored conversation is the document the
\* saving request loaded plus that request's turn alone.
C13_LaterWriterReplaces ==
    [][ \A r \in Slots :
          Saved(r) => conversations'[inFlight[r].req.id] = inFlight[r].convo
      ]_vars

\* C13, amended: /chat requests on one conversation are not serialized, and
\* each accepted save appends the request's own two messages to the transcript
\* as it is stored at that moment, so no message of an earlier writer is
\* lost; type, doctor and pendingDoctor are written by a save only where the
\* request changed them, and keep the stored value otherwise; a request whose
\* save finds the conversation as it loaded it (no overlapping write) stores
\* exactly its own copy.
C13_OverlapKeepsMessages ==
    [][ \A r \in Slots :
          Saved(r) =>
             LET h == inFlight[r]
                 id == h.req.id
                 loaded == h.req.pre
                 before == conversations[id]
                 after == conversations'[id]
             IN  /\ after.messages =
                       before.messages \o << Message("user", h.question),
                                             Message("assistant", h.answer) >>
                 /\ h.convo.type = loaded.type => after.type = before.type
                 /\ h.convo.type # loaded.type => after.type = h.convo.type
                 /\ h.convo.doctor = loaded.doctor => after.doctor = before.doctor
                 /\ h.convo.doctor # loaded.doctor => after.doctor = h.convo.doctor
                 /\ h.convo.pendingDoctor # loaded.pendingDoctor =>
                       after.pendingDoctor = h.convo.pendingDoctor
                 /\ ~h.offered /\ h.convo.pendingDoctor = loaded.pendingDoctor =>
                       after.pendingDoctor = before.pendingDoctor
                 /\ before = loaded => after = h.convo
      ]_vars

\* C13 witness: two overlapping requests were both served, a confirmation and
\* a new offer made on the same pending conversation; the transcript holds
\* both turns after the first one, and the confirmation's removal of the
\* pending doctor is overwritten by the offer: the conversation is in doctor
\* mode with another doctor pending.
C13_Witness ==
    /\ Busy = {}
    /\ last.route = "chat"
    /\ last.status = 200
    /\ Len(conversations[last.id].messages) = 6
    /\ conversations[last.id].messages[4].content =
          ConfirmNotify(conversations[last.id].doctor)
    /\ conversations[last.id].type = "doctor"
    /\ conversations[last.id].pendingDoctor # Null
    /\ conversations[last.id].pendingDoctor # conversations[last.id].doctor
    /\ last.answer = ConfirmMsg(conversations[last.id].pendingDoctor)

\* the last step was a call of the intent classifier with a question
Classified ==
    /\ last.route \in {"detectDoctorIntent", "detectDoctorIntentTemp"}
    /\ last.text # <<>>

\* C14: the intent classifier returns true exactly when the trimmed,
\* lower-cased response text contains "yes", and false for every other
\* response, an empty or malformed one included; only when the call to the
\* model itself fails does the failure propagate to the caller.
C14_ClassifierVerdict ==
    Classified =>
       /\ last.outcome.kind = "throw" => last.wantsDoctor = "throw"
       /\ last.outcome.kind = "text" =>
             last.wantsDoctor =
                IF includes(toLowerCase(trim(last.outcome.text)), kw_yes)
                THEN "true" ELSE "false"
       /\ last.outcome.kind = "noResponse" => last.wantsDoctor = "false"

\* C14 (auxiliary): on a response that carries a text both variants return
\* true exactly when the text holds "yes" in any letter case and false
\* otherwise, and a throwing call propagates in both; the triage variant
\* returns false for an empty question whatever the model would answer.
C14_TextVerdict ==
    /\ Classified =>
          /\ last.outcome.kind = "throw" => last.wantsDoctor = "throw"
          /\ last.outcome.kind = "text" =>
                /\ last.wantsDoctor \in {"true", "false"}
                /\ last.wantsDoctor = "true" <=>
                      \E i \in 1..(Len(last.outcome.text) - 2) :
                         /\ last.outcome.text[i] \in {"y", "Y"}
                         /\ last.outcome.text[i + 1] = "e"
                         /\ last.outcome.text[i + 2] = "s"
    /\ (last.route = "detectDoctorIntentTemp" /\ last.text = <<>>) =>
          last.wantsDoctor = "false"

\* C15: on a pending conversation the affirmative test comes first: a text
\* with both an affirmative and a negative token ("khong co") is served as a
\* confirmation, the conversation ends in doctor mode with the doctor that was
\* pending, and never generic.
C15_AffirmativeBeforeNegative ==
    (/\ ChatFound
     /\ last.pre.pendingDoctor # Null
     /\ last.status = 200
     /\ IsAffirmative(LastLower)
     /\ IsNegative(LastLower)) =>
       /\ Mode(Cur) = "doctorActive"
       /\ Mode(Cur) # "generic"
       /\ Cur.doctor = last.pre.pendingDoctor
       /\ last.answer = ConfirmNotify(last.pre.pendingDoctor)
       /\ last.answer # DeclineNotify

\* C15 witness: "khong co" was sent to a pending conversation.
C15_Witness ==
    /\ ChatFound
    /\ last.pre.pendingDoctor # Null
    /\ last.pre.type = "ai"
    /\ last.status = 200
    /\ last.question = kw_khong \o sp \o kw_co
    /\ Cur.type = "doctor"

\* the external calls a /chat request may make, in order
ChatCallTraces ==
    { <<>>, <<"doctor">>, <<"classify">>, <<"classify", "nurse">>,
      <<"classify", "findDoctor">>, <<"classify", "findDoctor", "nurse">> }

\* number of model calls in a call trace
ModelCalls(calls) ==
    Cardinality({ i \in 1..Len(calls) : calls[i] \in {"classify", "nurse", "doctor"} })

\* C16: the external calls of one /chat request: a confirmation or a refusal
\* of a pending offer makes none; a request in doctor mode makes exactly one
\* doctor-persona completion and no classifier call; a request on the generic
\* path makes exactly one classifier call, then at most one doctor lookup and
\* at most one nurse completion; nothing is retried, so a request makes at
\* most two model calls and at most one lookup.
C16_CallBudget ==
    last.route = "chat" =>
       /\ last.calls \in ChatCallTraces
       /\ ModelCalls(last.calls) <= 2
       /\ ~ChatFound => last.calls = <<>>
       /\ (ChatFound /\ last.status = 200
             /\ PendingBranch(last.pre, LastLower) \in {"confirm", "decline"}) =>
             last.calls = <<>>
       /\ (ChatFound /\ last.calls = <<>>) =>
             /\ last.status = 200
             /\ PendingBranch(last.pre, LastLower) \in {"confirm", "decline"}
       /\ (ChatFound /\ last.calls # <<>> /\ InDoctorMode(last.pre)) =>
             last.calls = <<"doctor">>
       /\ (ChatFound /\ last.pre.pendingDoctor = Null /\ InDoctorMode(last.pre)) =>
             last.calls = <<"doctor">>
       /\ (ChatFound /\ last.calls # <<>> /\ ~InDoctorMode(last.pre)) =>
             /\ Head(last.calls) = "classify"
             /\ last.wantsDoctor = "false" => last.calls = <<"classify", "nurse">>
             /\ last.wantsDoctor = "throw" => last.calls = <<"classify">>
             /\ last.wantsDoctor = "true" =>
                   SubSeq(last.calls, 1, 2) = <<"classify", "findDoctor">>

\* C16 witness: a generic request that made the classifier call, the lookup
\* and the nurse completion.
C16_Witness ==
    /\ ChatServed
    /\ last.calls = <<"classify", "findDoctor", "nurse">>
    /\ Len(last.pre.messages) >= 2

\* the doctors a conversation may hold: the documents of the collection
DirectoryDoctors == { doctors[i] : i \in 1..Len(doctors) }

\* C17: on a generic conversation, when the classifier answers true and the
\* collection has no doctor of the matched specialty, the request is served
\* as an ordinary nurse turn: the nurse completion is called after the lookup,
\* its reply is the one assistant message appended, the conversation stays
\* generic with no pending doctor, and no placeholder doctor is ever stored
\* in a conversation.
C17_NoDoctorFallsBackToNurse ==
    /\ (/\ ChatFound
        /\ Mode(last.pre) = "generic"
        /\ last.wantsDoctor = "true"
        /\ findOne(doctors, last.specialty) = Null
        /\ last.status = 200) =>
          /\ last.calls = <<"classify", "findDoctor", "nurse">>
          /\ Cur.messages = last.pre.messages \o Turn
          /\ last.answer \notin {ConfirmNotify(PlaceholderDoctor(last.specialty)),
                                 ConfirmMsg(PlaceholderDoctor(last.specialty))}
          /\ Mode(Cur) = "generic"
          /\ Cur.pendingDoctor = Null
          /\ Cur.doctor = Null
          /\ last.doctor = Null
    /\ \A id \in DOMAIN conversations :
          /\ conversations[id].pendingDoctor \in DirectoryDoctors \cup {Null}
          /\ conversations[id].doctor \in DirectoryDoctors \cup {Null}

\* C17 witness: the classifier answered true on a generic conversation with a
\* transcript, no doctor of the specialty exists, and the nurse replied.
C17_Witness ==
    /\ ChatServed
    /\ Mode(last.pre) = "generic"
    /\ Len(last.pre.messages) >= 2
    /\ last.wantsDoctor = "true"
    /\ last.specialty = General
    /\ doctors # <<>>
    /\ findOne(doctors, last.specialty) = Null
    /\ last.answer = <<"r">>

C19_OnlyOwnerChanges ==
    [][ \A id \in ConvIdInputs, userId \in Users, question \in Questions :
          (/\ id \in DOMAIN conversations
           /\ conversations[id].userId # userId
           /\ Chat(id, userId, question)) =>
             conversations'[id] = conversations[id]
      ]_vars

\* C20: listing the conversations of any user deletes every stored
\* conversation that has no message, whoever owns it, and leaves every
\* conversation with at least one message as it is; a conversation with a
\* message is removed only by an explicit delete of its id; so an empty
\* conversation can be gone, and not found, after any user's listing.
C20_ListingPurgesEmpty ==
    [][ /\ last'.route = "conversations" =>
              /\ DOMAIN conversations' =
                    { id \in DOMAIN conversations : conversations[id].messages # <<>> }
              /\ \A id \in DOMAIN conversations' :
                    conversations'[id] = conversations[id]
        /\ \A id \in DOMAIN conversations :
              /\ (conversations[id].messages # <<>> /\ id \notin DOMAIN conversations') =>
                    (/\ last'.route = "deleteConversation"
                     /\ last'.id = id
                     /\ last'.status = 200)
              /\ (conversations[id].messages = <<>> /\ id \notin DOMAIN conversations') =>
                    \/ last'.route = "conversations"
                    \/ (last'.route = "deleteConversation" /\ last'.id = id)
              /\ \A userId \in Users :
                    (/\ conversations[id].messages = <<>>
                     /\ conversations[id].userId # userId
                     /\ ListConversations(userId)) =>
                       id \notin DOMAIN conversations'
        /\ \A id \in StoreIdInputs, question \in StoreQuestions \ {<<>>} :
              (/\ id < nextConvId
               /\ id \notin DOMAIN conversations
               /\ Chat(id, "u1", question)) =>
                 last'.status = 404
      ]_vars

\* C20 witness: a listing has just answered with the second conversation,
\* which holds a turn, and the first conversation, created before it, is gone.
C20_Witness ==
    /\ last.route = "conversations"
    /\ nextConvId = 3
    /\ DOMAIN conversations = {2}
    /\ Len(conversations[2].messages) = 2
    /\ last.listed = << [id |-> 2, preview |-> kw_tim \o sp \o kw_da] >>

\* what ending a temporary conversation does to the store: an existing one is
\* replaced by a fresh permanent conversation of the same user with no
\* message, an unknown one is answered 404 and nothing is created
EndEffect ==
    \A id \in TempIdInputs :
       /\ (id \in DOMAIN tempConversations /\ EndTempConversation(id)) =>
             /\ last'.status = 200
             /\ nextConvId \notin DOMAIN conversations
             /\ conversations' =
                   (nextConvId :> NewConversation(tempConversations[id].userId))
                      @@ conversations
             /\ conversations'[nextConvId].userId = tempConversations[id].userId
             /\ conversations'[nextConvId].messages = <<>>
             /\ DOMAIN tempConversations' = DOMAIN tempConversations \ {id}
             /\ UNCHANGED <<triages, doctors>>
       /\ (id \notin DOMAIN tempConversations /\ EndTempConversation(id)) =>
             /\ last'.status = 404
             /\ UNCHANGED store

====
